---------------------------- MODULE Spec2Model ----------------------------
(***************************************************************************)
(* A model of the unimate retrieval-augmented question-answering pipeline: *)
(*   apps/doc-indexer/indexer.py   process_pdf, extract_heading            *)
(*   apps/doc-indexer/embed.py     DocIndexer.store_in_chromadb            *)
(*   apps/qa-engine/ragEngine.py   SimpleRAGQA.ask_question                *)
(*                                                                         *)
(* Text is a sequence of one-character strings.  A Python value that may   *)
(* be None is a sequence of length at most one: None is << >> and a value  *)
(* v is << v >>, so that None and the empty string stay different.         *)
(***************************************************************************)
EXTENDS Integers, Sequences, FiniteSets, TLC

VARIABLES
    CHUNK_SIZE,   \* indexer.py: the configured chunk size (characters)
    pdf,          \* the opened document: what each page's extract_text() does
    doc_id,       \* os.path.basename(file_path)
    ppc,          \* position of process_pdf: "start", "loop", "returned"
    page_num,     \* the page the loop of process_pdf is about to read
    chunks,       \* the list process_pdf builds and returns
    failed,       \* whether the except branch of process_pdf was taken
    store,        \* the Chroma database at /home/unimate/chroma_db:
                  \* collection name -> (record id -> document and metadata)
    last,         \* the most recent call of store_in_chromadb or
                  \* ask_question: its arguments, what it did and its result
    response      \* the HTTP response to the most recent PUT /ask request

chunkVars == <<CHUNK_SIZE, pdf, doc_id, ppc, page_num, chunks, failed>>

vars == <<CHUNK_SIZE, pdf, doc_id, ppc, page_num, chunks, failed, store, last, response>>

-----------------------------------------------------------------------------
(* Bounds of the model *)

MaxChunkSize == 3
MaxPages == 2
MaxTextLen == 3
MaxHeadLen == 5
MaxChunks == 2
MaxLegacy == 4
MaxPrior == 2

-----------------------------------------------------------------------------
(* Python values *)

None == << >>
Some(v) == << v >>

\* s[i:j] of Python, 0-based, for 0 <= i <= j
Slice(s, i, j) == SubSeq(s, i + 1, IF j < Len(s) THEN j ELSE Len(s))

Min(a, b) == IF a < b THEN a ELSE b

RECURSIVE Concat(_)
Concat(ss) == IF ss = << >> THEN << >> ELSE Head(ss) \o Concat(Tail(ss))

\* all sequences over S of length at most n
SeqsUpTo(S, n) == UNION {[1..k -> S] : k \in 0..n}


-----------------------------------------------------------------------------
(* indexer.py: extract_heading *)

\* the characters \s of Python's re matches, among those the model uses
Whitespace == {" ", "\n"}
Digits == {"1"}

\* re.IGNORECASE, on the letters of the two keywords
Lower(c) ==
    CASE c = "A" -> "a" [] c = "C" -> "c" [] c = "E" -> "e" [] c = "H" -> "h"
      [] c = "I" -> "i" [] c = "N" -> "n" [] c = "O" -> "o" [] c = "P" -> "p"
      [] c = "R" -> "r" [] c = "S" -> "s" [] c = "T" -> "t" [] OTHER -> c

Keywords == { <<"c", "h", "a", "p", "t", "e", "r">>,
              <<"s", "e", "c", "t", "i", "o", "n">> }

\* str.strip(): leading and trailing whitespace removed
RECURSIVE LStrip(_)
LStrip(s) == IF s # << >> /\ Head(s) \in Whitespace THEN LStrip(Tail(s)) ELSE s

RECURSIVE RStrip(_)
RStrip(s) ==
    IF s # << >> /\ s[Len(s)] \in Whitespace
    THEN RStrip(SubSeq(s, 1, Len(s) - 1))
    ELSE s

Strip(s) == RStrip(LStrip(s))

\* the length of the longest prefix of s whose characters are all in S
RECURSIVE Run(_, _)
Run(s, S) == IF s # << >> /\ Head(s) \in S THEN 1 + Run(Tail(s), S) ELSE 0

Drop(s, n) == SubSeq(s, n + 1, Len(s))

\* "\n".join(text.split("\n")[:n]): text up to the n-th newline, excluded
RECURSIVE TakeLines(_, _)
TakeLines(s, n) ==
    IF n = 0 \/ s = << >> THEN << >>
    ELSE IF Head(s) = "\n"
         THEN IF n = 1 THEN << >> ELSE <<"\n">> \o TakeLines(Tail(s), n - 1)
         ELSE <<Head(s)>> \o TakeLines(Tail(s), n)

\* text.split("\n")[:n] as a sequence of lines
RECURSIVE SplitLines(_, _)
SplitLines(s, n) ==
    IF n = 0 THEN << >>
    ELSE LET k == Run(s, {c \in {s[i] : i \in 1..Len(s)} : c # "\n"})
         IN  IF k = Len(s) THEN << s >>
             ELSE << SubSeq(s, 1, k) >> \o SplitLines(Drop(s, k + 1), n - 1)

\* The first group of HEADING_PATTERN anchored by ^ at the start of s:
\* the number of characters (#+ | \b(?:Chapter|Section)\b | \d+\.\d+) takes,
\* 0 when no alternative matches there.  Each quantifier is greedy and a
\* shorter repetition is always followed by a character \s cannot match.
PrefixLen(s) ==
    LET hashes == Run(s, {"#"})
        d1     == Run(s, Digits)
        d2     == IF d1 > 0 /\ Len(s) > d1 /\ s[d1 + 1] = "."
                  THEN Run(Drop(s, d1 + 1), Digits) ELSE 0
        low    == [i \in 1..Len(s) |-> Lower(s[i])]
    IN  IF hashes > 0 THEN hashes
        ELSE IF \E k \in Keywords : Len(low) >= Len(k) /\ SubSeq(low, 1, Len(k)) = k
             THEN Len(CHOOSE k \in Keywords : TRUE)
        ELSE IF d2 > 0 THEN d1 + 1 + d2
        ELSE 0

\* re.search(HEADING_PATTERN, s, re.IGNORECASE) without re.MULTILINE:
\* ^ matches only at the start of the string, $ only at its end, \s+ may
\* run over newlines and (.+) may not.  The result is group 2, or None.
Search(s) ==
    LET p    == PrefixLen(s)
        w    == Run(Drop(s, p), Whitespace)
        rest == Drop(s, p + w)
    IN  IF p > 0 /\ w > 0 /\ rest # << >> /\ \A i \in 1..Len(rest) : rest[i] # "\n"
        THEN Some(rest)
        ELSE None

extract_heading(text) == Search(Strip(text))

-----------------------------------------------------------------------------
(* indexer.py: process_pdf *)

\* the chunk dictionaries of one page: text[i:i+CHUNK_SIZE] for i in
\* range(0, len(text), CHUNK_SIZE), the heading on the chunk with i = 0
PageChunks(id, text, num, size) ==
    LET first_lines == TakeLines(text, 3)
        heading     == extract_heading(first_lines)
        n           == (Len(text) + size - 1) \div size
    IN  [k \in 1..n |->
            LET i == (k - 1) * size
            IN  [ doc_id      |-> id,
                  chunk_text  |-> Slice(text, i, i + size),
                  page_number |-> Some(num),
                  heading     |-> IF i = 0 THEN heading ELSE None ] ]

\* what page.extract_text() does on a page: it raises, or returns None or a string
PageOf(raises, text) == [raises |-> raises, text |-> text]

\* pdfplumber.open succeeds and the loop over pdf.pages starts
OpenPdf ==
    /\ ppc = "start"
    /\ pdf.opens
    /\ ppc' = "loop"
    /\ UNCHANGED <<CHUNK_SIZE, pdf, doc_id, page_num, chunks, failed, store, last, response>>

\* pdfplumber.open raises: the except branch prints and [] is returned
OpenRaises ==
    /\ ppc = "start"
    /\ ~pdf.opens
    /\ ppc' = "returned"
    /\ failed' = TRUE
    /\ UNCHANGED <<CHUNK_SIZE, pdf, doc_id, page_num, chunks, store, last, response>>

\* one iteration of the loop whose extract_text() returns
ProcessPage ==
    /\ ppc = "loop"
    /\ page_num <= Len(pdf.pages)
    /\ ~pdf.pages[page_num].raises
    /\ LET text == pdf.pages[page_num].text
       IN  chunks' = IF text = None \/ text = Some(<< >>)
                     THEN chunks
                     ELSE chunks \o PageChunks(doc_id, text[1], page_num, CHUNK_SIZE)
    /\ page_num' = page_num + 1
    /\ UNCHANGED <<CHUNK_SIZE, pdf, doc_id, ppc, failed, store, last, response>>

\* extract_text() raises inside the loop: the try block encloses the whole
\* loop, so control leaves it for the except branch and the function returns
PageRaises ==
    /\ ppc = "loop"
    /\ page_num <= Len(pdf.pages)
    /\ pdf.pages[page_num].raises
    /\ ppc' = "returned"
    /\ failed' = TRUE
    /\ UNCHANGED <<CHUNK_SIZE, pdf, doc_id, page_num, chunks, store, last, response>>

\* the loop is exhausted: return chunks
ReturnChunks ==
    /\ ppc = "loop"
    /\ page_num > Len(pdf.pages)
    /\ ppc' = "returned"
    /\ UNCHANGED <<CHUNK_SIZE, pdf, doc_id, page_num, chunks, failed, store, last, response>>

-----------------------------------------------------------------------------
(* The Chroma database both programs open at /home/unimate/chroma_db *)

\* embed.py: the collection DocIndexer writes
INDEX_COLLECTION == "doc_chunks"

\* ragEngine.py: the collection SimpleRAGQA reads
QA_COLLECTION == "document_chunks"

Collections == {INDEX_COLLECTION, QA_COLLECTION}

\* dict.get(key) and dict.get(key, default) on a dictionary with string keys
Get(d, key) == IF key \in DOMAIN d THEN d[key] ELSE None
GetOr(d, key, default) == IF key \in DOMAIN d THEN d[key] ELSE default

\* f"{doc_id}_chunk_{i}": the decimal index follows the last "_chunk_", so
\* the string determines both parts and is kept as the triple
ChunkId(id, i) == <<id, "_chunk_", i>>

-----------------------------------------------------------------------------
(* embed.py: DocIndexer.store_in_chromadb *)

\* the metadata dictionary without the replacement of None values
MetadataOf_Raw(id, chunk, i) ==
    [ doc_id      |-> id,
      page        |-> Get(chunk, "page_number"),
      heading     |-> Get(chunk, "heading"),
      chunk_index |-> i ]

\* lines 57-69: the metadata dictionary of chunk number i
MetadataOf(id, chunk, i) ==
    LET page    == Get(chunk, "page_number")
        heading == Get(chunk, "heading")
    IN  [ doc_id      |-> id,
          page        |-> IF page # None THEN page ELSE Some(0),
          heading     |-> IF heading # None THEN heading ELSE Some(<< >>),
          chunk_index |-> i ]

Metadatas(id, cs) == [k \in 1..Len(cs) |-> MetadataOf(id, cs[k], k - 1)]

Ids(id, cs) == [k \in 1..Len(cs) |-> ChunkId(id, k - 1)]

\* What Collection.add does with a record whose id the collection already
\* holds depends on the chromadb release installed: it raises a duplicate-id
\* error for the whole batch, or it keeps the stored record and drops the
\* new one.  No release overwrites.  An empty batch and a None metadata
\* value are rejected with a ValueError.
AddModes == {"raise", "ignore"}

AddRaises(coll, ids, metas, mode) ==
    \/ ids = << >>
    \/ \E k \in 1..Len(metas) : metas[k].page = None \/ metas[k].heading = None
    \/ mode = "raise" /\ \E k \in 1..Len(ids) : ids[k] \in DOMAIN coll

CollectionAdd(coll, ids, docs, metas) ==
    LET new == {ids[k] : k \in 1..Len(ids)} \ DOMAIN coll
    IN  [id \in DOMAIN coll \cup new |->
            IF id \in DOMAIN coll THEN coll[id]
            ELSE LET k == CHOOSE j \in 1..Len(ids) : ids[j] = id
                 IN  [document |-> docs[k], metadata |-> metas[k]]]

\* the dictionary store_in_chromadb returns
StoreResult(ok, n, size, why) ==
    IF ok
    THEN [status |-> "success", stored_count |-> n, collection_size |-> size]
    ELSE [status |-> "error", error |-> why]

\* store_in_chromadb(doc_id, chunks, embeddings), with one embedding per
\* chunk as embed_documents returns them.  `passed` is the metadatas
\* argument of the add call, `existing` the ids of the batch the collection
\* held when it was called and `size_before` its count then.
StoreInChromadb(id, cs, mode) ==
    LET coll   == store[INDEX_COLLECTION]
        ids    == Ids(id, cs)
        noText == \E k \in 1..Len(cs) : "chunk_text" \notin DOMAIN cs[k]
        docs   == [k \in 1..Len(cs) |-> cs[k].chunk_text]
        metas  == Metadatas(id, cs)
        call   == [ op          |-> "store",
                    doc_id      |-> id,
                    chunks      |-> cs,
                    existing    |-> {ids[k] : k \in 1..Len(ids)} \cap DOMAIN coll,
                    size_before |-> Cardinality(DOMAIN coll) ]
    IN  IF noText
        THEN /\ last' = call @@
                        [add_called |-> FALSE,
                         passed     |-> << >>,
                         result     |-> StoreResult(FALSE, 0, 0, "KeyError: chunk_text")]
             /\ UNCHANGED store
        ELSE IF AddRaises(coll, ids, metas, mode)
        THEN /\ last' = call @@
                        [add_called |-> TRUE,
                         passed     |-> metas,
                         result     |-> StoreResult(FALSE, 0, 0, "add raised")]
             /\ UNCHANGED store
        ELSE LET after == CollectionAdd(coll, ids, docs, metas)
             IN  /\ store' = [store EXCEPT ![INDEX_COLLECTION] = after]
                 /\ last' = call @@
                        [add_called |-> TRUE,
                         passed     |-> metas,
                         result     |-> StoreResult(TRUE, Len(cs),
                                                    Cardinality(DOMAIN after), "")]

-----------------------------------------------------------------------------
(* ragEngine.py: SimpleRAGQA.ask_question *)

\* search_kwargs={"k": 3}
RETRIEVE_K == 3

\* doc.page_content[:100]
PREVIEW_LEN == 100

\* Ollama(timeout=300), in seconds
OLLAMA_TIMEOUT == 300

\* what a similarity search of a collection may return: min(k, count) of
\* its records, each once, in the order the distance ranks them (the
\* ranking is the embedding model's and is left open)
Retrievals(coll, k) ==
    LET n == Min(k, Cardinality(DOMAIN coll))
    IN  { r \in [1..n -> DOMAIN coll] : \A i, j \in 1..n : r[i] = r[j] => i = j }

\* the langchain Document of a stored record
DocumentOf(rec) == [page_content |-> rec.document, metadata |-> rec.metadata]

\* the citation with the whole text of the chunk as its preview
SourceOf_FullText(doc) ==
    [ document        |-> GetOr(doc.metadata, "doc_id", "unknown"),
      page            |-> GetOr(doc.metadata, "page", Some(0)),
      content_preview |-> doc.page_content \o <<".", ".", ".">> ]

\* lines 93-100: the citation of one source document
SourceOf(doc) ==
    [ document        |-> GetOr(doc.metadata, "doc_id", "unknown"),
      page            |-> GetOr(doc.metadata, "page", Some(0)),
      content_preview |-> Slice(doc.page_content, 0, PREVIEW_LEN) \o <<".", ".", ".">> ]

\* round(seconds, 2) of a duration in milliseconds, in hundredths of a second
Round2(ms) == (ms + 5) \div 10

\* f"Processing failed: {str(e)}" for the exception each failure raises
ErrorMessage(outcome) ==
    CASE outcome = "embed_error" -> "Processing failed: embedding model error"
      [] outcome = "store_error" -> "Processing failed: vector store error"
      [] outcome = "llm_error"   -> "Processing failed: connection refused"
      [] outcome = "timeout"     -> "Processing failed: read timed out"

\* the calls the chain issues until `outcome` ends it: the retriever embeds
\* the query and searches the collection, then the LLM is called
CallsOf(outcome) ==
    CASE outcome = "embed_error" -> <<"embed_query">>
      [] outcome = "store_error" -> <<"embed_query", "vector_query">>
      [] OTHER                   -> <<"embed_query", "vector_query", "synthesize">>

\* the dictionary ask_question returns: lines 90-104 when the chain
\* returned, line 107 when anything in the try block raised
AskResult(question, outcome, docs, answer, elapsed) ==
    IF outcome = "ok"
    THEN [ question        |-> question,
           answer          |-> answer,
           sources         |-> [k \in 1..Len(docs) |-> SourceOf(docs[k])],
           processing_time |-> Round2(elapsed) ]
    ELSE [ error |-> ErrorMessage(outcome) ]

AskOutcomes == {"embed_error", "store_error", "llm_error", "timeout", "ok"}

\* durations of the retrieval and of a synthesis that answers, milliseconds
RetrieveMs == {0, 7}
LlmMs == {1234}

\* ask_question(question, ollama_host): the chain is built and run on the
\* question as it is; `elapsed` is the time from start_time to the return
AskQuestion(question, outcome, retrieval, tr, tl) ==
    LET coll    == store[QA_COLLECTION]
        docs    == IF outcome \in {"embed_error", "store_error"}
                   THEN << >>
                   ELSE [k \in 1..Len(retrieval) |-> DocumentOf(coll[retrieval[k]])]
        elapsed == CASE outcome = "embed_error" -> 0
                     [] outcome = "store_error" -> tr
                     [] outcome = "llm_error"   -> tr
                     [] outcome = "timeout"     -> tr + OLLAMA_TIMEOUT * 1000
                     [] outcome = "ok"          -> tr + tl
    IN  /\ last' = [ op        |-> "ask",
                     question  |-> question,
                     outcome   |-> outcome,
                     calls     |-> CallsOf(outcome),
                     retrieved |-> docs,
                     elapsed   |-> elapsed,
                     result    |-> AskResult(question, outcome, docs,
                                             "answer", elapsed) ]
        /\ UNCHANGED store

-----------------------------------------------------------------------------
(* ragEngine.py: the PUT /ask endpoint *)

\* what the client receives: the status code, the detail of an error
\* response as the pieces of its text, the body of a success response
HttpResponse(code, detail, body) ==
    [status_code |-> code, detail |-> detail, body |-> body]

\* no request has been answered
NoResponse == HttpResponse(0, << >>, None)

\* str(e) of an HTTPException depends on the starlette release installed:
\* "{status_code}: {detail}", or the empty string of an Exception without args
StrModes == {"status_detail", "empty"}

StrOfHTTPException(code, detail, mode) ==
    IF mode = "status_detail" THEN <<code, ": ">> \o detail ELSE << >>

\* QuestionResponse(**result): the fields of result and status "success"
QuestionResponse(result) == result @@ [status |-> "success"]

\* the handler of PUT /ask.  The HTTPException of line 124 is raised inside
\* the try block, and HTTPException is an Exception: the except clause of
\* line 128 catches it and raises the one of line 129 in its place.
ask_question(result, mode) ==
    IF "error" \in DOMAIN result
    THEN LET e == StrOfHTTPException("400", <<result.error>>, mode)
         IN  HttpResponse(500, <<"Internal server error: ">> \o e, None)
    ELSE HttpResponse(200, << >>, Some(QuestionResponse(result)))

-----------------------------------------------------------------------------
(* The calls made on the indexer and on the question answerer *)

T1 == <<"x">>
T2 == <<"y">>

\* chunk dictionaries as the JSON files hold them: with page and heading,
\* with either null, with either missing, and one without its text
ChunkDicts ==
    { [chunk_text |-> T1, page_number |-> Some(1), heading |-> Some(<<"h">>)],
      [chunk_text |-> T2, page_number |-> None],
      [chunk_text |-> T1, heading |-> None],
      [page_number |-> Some(1), heading |-> None] }

StoreCalls ==
    {<<"a.pdf", cs>> : cs \in SeqsUpTo(ChunkDicts, MaxChunks)}
        \cup {<<"b.pdf", <<c>>>> : c \in {d \in ChunkDicts : "heading" \notin DOMAIN d}}

\* the empty question, a blank one and a proper one
Questions == { << >>, <<" ">>, <<"q">> }

IsBlank(q) == Strip(q) = << >>

\* Records an earlier run left in the collection the question answerer
\* reads (the indexer wrote "document_chunks" before it was changed to
\* "doc_chunks", embed.py lines 29-32): texts shorter than, as long as and
\* longer than the preview, one of them ending in three dots.
Fill(n, dots) == [i \in 1..n |-> IF i > n - dots THEN "." ELSE "x"]

LegacyLen(i) ==
    CASE i = 1 -> 2
      [] i = 2 -> PREVIEW_LEN + 3
      [] i = 3 -> PREVIEW_LEN
      [] OTHER -> PREVIEW_LEN + 50 + i

LegacyRecord(i) ==
    [ document |-> Fill(LegacyLen(i), IF i = 2 THEN 3 ELSE 0),
      metadata |-> IF i = 1
                   THEN [heading |-> Some(<< >>)]
                   ELSE [doc_id |-> "old.pdf", page |-> Some(i),
                         heading |-> Some(<< >>), chunk_index |-> i - 1] ]

LegacyCollection(n) ==
    [id \in {ChunkId("old.pdf", i - 1) : i \in 1..n} |-> LegacyRecord(id[3] + 1)]

Closed == [opens |-> FALSE, pages |-> << >>]

\* the state of process_pdf while the indexer and the answerer run
Idle ==
    /\ CHUNK_SIZE = 1000
    /\ pdf = Closed
    /\ doc_id = "a.pdf"
    /\ ppc = "returned"
    /\ page_num = 1
    /\ chunks = << >>
    /\ failed = FALSE

\* a fresh deployment: both programs have opened the database and
\* get_or_create_collection has made their collections, empty
Init ==
    /\ Idle
    /\ store = [c \in Collections |-> LegacyCollection(0)]
    /\ last = [op |-> "none"]
    /\ response = NoResponse

\* a deployment whose database an earlier indexing run has filled
InitAsk ==
    /\ Idle
    /\ \E n \in 0..MaxLegacy :
          store = [c \in Collections |->
                      IF c = QA_COLLECTION THEN LegacyCollection(n)
                      ELSE LegacyCollection(0)]
    /\ last = [op |-> "none"]
    /\ response = NoResponse

Store ==
    /\ \E call \in StoreCalls, mode \in AddModes :
          StoreInChromadb(call[1], call[2], mode)
    /\ UNCHANGED <<chunkVars, response>>

\* a request that fails before the search has no retrieval and one that
\* fails before the synthesis answers has no synthesis time
AskCalls ==
    \E q \in Questions, outcome \in AskOutcomes :
          \E r \in IF outcome \in {"embed_error", "store_error"}
                   THEN {<< >>}
                   ELSE Retrievals(store[QA_COLLECTION], RETRIEVE_K),
             tr \in IF outcome = "embed_error" THEN {0} ELSE RetrieveMs,
             tl \in IF outcome = "ok" THEN LlmMs ELSE {0} :
             AskQuestion(q, outcome, r, tr, tl)

Ask ==
    /\ AskCalls
    /\ UNCHANGED <<chunkVars, response>>

\* a PUT /ask request: the handler calls rag_system.ask_question and answers
AskEndpoint ==
    /\ AskCalls
    /\ \E mode \in StrModes : response' = ask_question(last'.result, mode)
    /\ UNCHANGED chunkVars

Next == Store \/ Ask

NextAsk == Ask

NextHttp == AskEndpoint

-----------------------------------------------------------------------------
(* The indexing pipeline: indexer.py writes <name>_processed.json, embed.py
   reads it and stores its chunks under the name of that file *)

\* indexer.py line 47 and embed.py lines 93-102: the doc_id process_file
\* passes on is the name of the JSON file save_to_json wrote
ProcessedName(file) == CASE file = "a.pdf" -> "a_processed.json"

\* the records an earlier run stored for the file when it had m chunks
PriorChunks(m) ==
    [k \in 1..m |-> [ doc_id      |-> "a.pdf",
                      chunk_text  |-> <<"o", "l", "d">>,
                      page_number |-> Some(1),
                      heading     |-> None ]]

PriorCollection(m) ==
    LET id == ProcessedName("a.pdf")
        cs == PriorChunks(m)
    IN  CollectionAdd(LegacyCollection(0), Ids(id, cs),
                      [k \in 1..m |-> cs[k].chunk_text], Metadatas(id, cs))

\* page texts around the chunk size, and the 2500 characters of a long page
PipelineLens == {1, 1000, 1001, 2500}

\* a page text of n characters; the long ones start with three short lines
PipelineText(n) ==
    IF n < 6 THEN Fill(n, 0)
    ELSE <<"x", "\n", "x", "\n", "x", "\n">> \o Fill(n - 6, 0)

PipelinePages ==
    {PageOf(FALSE, Some(PipelineText(n))) : n \in PipelineLens}
        \cup {PageOf(FALSE, None), PageOf(TRUE, None)}

PipelinePdfs ==
    {[opens |-> TRUE, pages |-> ps] : ps \in SeqsUpTo(PipelinePages, MaxPages) \ {<< >>}}
        \cup {[opens |-> FALSE, pages |-> << >>]}

InitPipeline ==
    /\ CHUNK_SIZE = 1000
    /\ pdf \in PipelinePdfs
    /\ doc_id = "a.pdf"
    /\ ppc = "start"
    /\ page_num = 1
    /\ chunks = << >>
    /\ failed = FALSE
    /\ \E m \in 0..MaxPrior :
          store = [c \in Collections |->
                      IF c = INDEX_COLLECTION THEN PriorCollection(m)
                      ELSE LegacyCollection(0)]
    /\ last = [op |-> "none"]
    /\ response = NoResponse

\* process_all_pdfs saves the chunks of a file only when there are some;
\* process_file loads them and process_and_store_chunks stores them
StoreChunks ==
    /\ ppc = "returned"
    /\ chunks # << >>
    /\ last.op = "none"
    /\ \E mode \in AddModes :
          StoreInChromadb(ProcessedName(doc_id), chunks, mode)
    /\ UNCHANGED <<chunkVars, response>>

NextPipeline ==
    OpenPdf \/ OpenRaises \/ ProcessPage \/ PageRaises \/ ReturnChunks \/ StoreChunks

SpecPipeline == InitPipeline /\ [][NextPipeline]_vars

Spec == Init /\ [][Next]_vars

SpecAsk == InitAsk /\ [][NextAsk]_vars

SpecHttp == InitAsk /\ [][NextHttp]_vars

-----------------------------------------------------------------------------
(* The documents process_pdf is run on *)

AbTexts == SeqsUpTo({"a", "b"}, MaxTextLen)

AbPages == {PageOf(FALSE, Some(t)) : t \in AbTexts}
               \cup {PageOf(FALSE, None), PageOf(TRUE, None)}

HeadTexts == SeqsUpTo({"#", " ", "\n", "a"}, MaxHeadLen)

SamplePages ==
    { PageOf(FALSE, Some(<<"C", "h", "a", "p", "t", "e", "r", " ", "1">>)),
      PageOf(FALSE, Some(<<"s", "e", "c", "t", "i", "o", "n", " ", "a", "\n", "b">>)),
      PageOf(FALSE, Some(<<"1", ".", "1", " ", "a">>)),
      PageOf(FALSE, Some(<<"1", ".", "1", "\n", "a", "\n", "b", "\n", "#", " ", "a">>)),
      PageOf(FALSE, Some(<<"a", "\n", "#", " ", "b">>)),
      PageOf(FALSE, Some(<<"#", " ", "a">>)),
      PageOf(TRUE, None) }

Pdfs ==
    {[opens |-> TRUE, pages |-> ps] : ps \in SeqsUpTo(AbPages, MaxPages)}
        \cup {[opens |-> TRUE, pages |-> <<PageOf(FALSE, Some(t))>>] : t \in HeadTexts}
        \cup {[opens |-> TRUE, pages |-> ps] : ps \in SeqsUpTo(SamplePages, 2)}
        \cup {[opens |-> FALSE, pages |-> << >>]}

InitChunk ==
    /\ CHUNK_SIZE \in 1..MaxChunkSize
    /\ pdf \in Pdfs
    /\ doc_id = "a.pdf"
    /\ ppc = "start"
    /\ page_num = 1
    /\ chunks = << >>
    /\ failed = FALSE
    /\ store = [c \in Collections |-> << >>]
    /\ last = [op |-> "none"]
    /\ response = NoResponse

NextChunk == OpenPdf \/ OpenRaises \/ ProcessPage \/ PageRaises \/ ReturnChunks

SpecChunk == InitChunk /\ [][NextChunk]_vars

-----------------------------------------------------------------------------
(* Properties of process_pdf, checked under SpecChunk *)

\* page p of the document has non-empty text
HasText(p) ==
    /\ ~pdf.pages[p].raises
    /\ pdf.pages[p].text # None
    /\ pdf.pages[p].text # Some(<< >>)

TextOf(p) == pdf.pages[p].text[1]

\* the chunks emitted for page p, in the order they were emitted
ChunksOfPage(p) == SelectSeq(chunks, LAMBDA c : c.page_number = Some(p))

ChunkTexts(cs) == [k \in 1..Len(cs) |-> cs[k].chunk_text]

\* the pages the loop has read and chunked so far
Reached(p) == p < page_num

\* Every page the loop has read is reconstructed by its chunks, and every
\* chunk is a non-empty window of at most CHUNK_SIZE characters of its page.
ReachedPagesReconstructed ==
    /\ \A p \in 1..Len(pdf.pages) :
          Reached(p) /\ HasText(p)
              => Concat(ChunkTexts(ChunksOfPage(p))) = TextOf(p)
    /\ \A k \in 1..Len(chunks) :
          /\ chunks[k].chunk_text # << >>
          /\ Len(chunks[k].chunk_text) <= CHUNK_SIZE

\* C1: when process_pdf has returned, for every page with non-empty text
\* the chunks of that page, concatenated in emission order, equal the
\* page's text; every chunk_text is non-empty, at most CHUNK_SIZE long and
\* a window of the text of the one page it is tagged with.
C1_PagesReconstructed ==
    ppc = "returned" =>
        /\ \A p \in 1..Len(pdf.pages) :
              HasText(p) => Concat(ChunkTexts(ChunksOfPage(p))) = TextOf(p)
        /\ \A k \in 1..Len(chunks) :
              LET c == chunks[k]
                  p == c.page_number[1]
              IN  /\ c.chunk_text # << >>
                  /\ Len(c.chunk_text) <= CHUNK_SIZE
                  /\ p \in 1..Len(pdf.pages) /\ HasText(p)
                  /\ \E i \in 0..Len(TextOf(p)) :
                        c.chunk_text = Slice(TextOf(p), i, i + Len(c.chunk_text))

\* a document whose page fails is followed by a page with text, and
\* process_pdf has returned
C1_Witness ==
    /\ ppc = "returned"
    /\ \E p \in 1..Len(pdf.pages) : HasText(p) /\ Len(TextOf(p)) > CHUNK_SIZE
    /\ \E p \in 1..Len(pdf.pages) : pdf.pages[p].raises

\* C5: a page whose extraction fails is skipped and every other page of
\* the document, the pages after it included, still contributes its chunks.
C5_OtherPagesContribute ==
    ppc = "returned" /\ pdf.opens =>
        \A p \in 1..Len(pdf.pages) :
            HasText(p) =>
                ChunksOfPage(p) = PageChunks(doc_id, TextOf(p), p, CHUNK_SIZE)

\* what the code does instead: the first failing page ends the document
C5_FailureAbortsDocument ==
    ppc = "returned" /\ failed =>
        \A p \in 1..Len(pdf.pages) :
            (\E q \in 1..p : pdf.pages[q].raises) => ChunksOfPage(p) = << >>

\* what the pattern captures on each of the first three lines of a page
LineCaptures(text) ==
    LET lines == SplitLines(text, 3)
    IN  {extract_heading(lines[i]) : i \in 1..Len(lines)} \ {None}

\* C8: among the chunks of one page only the first may carry a heading, and
\* that heading is the capture of the pattern on one of the first three
\* lines of the page, or null when none of those lines matches.
C8_HeadingOfFirstChunk ==
    \A p \in 1..Len(pdf.pages) :
        LET cs == ChunksOfPage(p)
        IN  /\ \A k \in 2..Len(cs) : cs[k].heading = None
            /\ cs # << >> =>
                  IF LineCaptures(TextOf(p)) = {}
                  THEN cs[1].heading = None
                  ELSE cs[1].heading \in LineCaptures(TextOf(p))

\* the part of C8 the code keeps: later chunks of a page carry no heading,
\* and the first carries what extract_heading finds in the joined lines
C8_OnlyFirstChunkHasHeading ==
    \A p \in 1..Len(pdf.pages) :
        LET cs == ChunksOfPage(p)
        IN  /\ \A k \in 2..Len(cs) : cs[k].heading = None
            /\ cs # << >> =>
                  /\ cs[1].chunk_text = Slice(TextOf(p), 0, CHUNK_SIZE)
                  /\ cs[1].heading = extract_heading(TakeLines(TextOf(p), 3))

\* a page of several chunks whose first line matches the pattern
C8_Witness ==
    \E p \in 1..Len(pdf.pages) :
        /\ Len(ChunksOfPage(p)) > 1
        /\ extract_heading(SplitLines(TextOf(p), 3)[1]) # None

-----------------------------------------------------------------------------
(* Properties of ask_question, checked under SpecAsk *)

Asked == last.op = "ask"

\* C2: ask with an empty or whitespace-only question fails fast with a
\* validation error: the result is an error and no embedding call, no
\* vector-store query and no synthesis call was issued for the request.
C2_BlankQuestionFailsFast ==
    Asked /\ IsBlank(last.question) =>
        /\ "error" \in DOMAIN last.result
        /\ last.calls = << >>

\* what the code does with a blank question: the same as with any other
C2_BlankQuestionIsProcessed ==
    Asked => last.calls = CallsOf(last.outcome) /\ last.calls # << >>

\* C3: whenever retrieval or synthesis fails, ask returns a structured
\* error result that carries status = error and a message.
C3_FailureHasStatusError ==
    Asked /\ last.outcome # "ok" =>
        /\ "status" \in DOMAIN last.result
        /\ last.result.status = "error"
        /\ "error" \in DOMAIN last.result

\* what the code returns on a failure: a dictionary with the one key "error"
C3_FailureIsErrorOnly ==
    Asked /\ last.outcome # "ok" =>
        /\ DOMAIN last.result = {"error"}
        /\ last.result.error = ErrorMessage(last.outcome)

\* C7: when the synthesis call exceeds its timeout, ask returns a result
\* with status error and a timeout-indicating message that still contains
\* a processing_time equal to the time elapsed up to the abort.
C7_TimeoutKeepsProcessingTime ==
    Asked /\ last.outcome = "timeout" =>
        /\ "status" \in DOMAIN last.result
        /\ last.result.status = "error"
        /\ last.result.error = "Processing failed: read timed out"
        /\ "processing_time" \in DOMAIN last.result
        /\ last.result.processing_time = Round2(last.elapsed)

\* a request whose synthesis timed out after the retrieval took some time
C7_Witness ==
    /\ Asked
    /\ last.outcome = "timeout"
    /\ last.elapsed > OLLAMA_TIMEOUT * 1000

IsPrefix(s, t) == Len(s) <= Len(t) /\ \A i \in 1..Len(s) : s[i] = t[i]

\* C10: on a successful ask there is one citation per retrieved
\* chunk, in retrieval order, and each content_preview is at most about the
\* first 100 characters of the chunk and is never the chunk's full text.
C10_PreviewNeverFullText ==
    Asked /\ last.outcome = "ok" =>
        /\ Len(last.result.sources) = Len(last.retrieved)
        /\ \A k \in 1..Len(last.retrieved) :
              LET text    == last.retrieved[k].page_content
                  preview == last.result.sources[k].content_preview
              IN  /\ Len(preview) <= PREVIEW_LEN + 3
                  /\ preview # text

\* C10, amended: one citation per retrieved chunk, in retrieval order,
\* with the chunk's document id and page; the content_preview is the first
\* 100 characters of the chunk (the whole chunk when it has no more)
\* followed by three dots; it holds the full text of a chunk of at most
\* 100 characters, and it is the full text of a chunk of 103 characters
\* that ends in three dots.
C10_CitationsAndPreviews ==
    Asked /\ last.outcome = "ok" =>
        /\ Len(last.result.sources) = Len(last.retrieved)
        /\ \A k \in 1..Len(last.retrieved) :
              LET doc     == last.retrieved[k]
                  text    == doc.page_content
                  src     == last.result.sources[k]
                  preview == src.content_preview
                  n       == Min(Len(text), PREVIEW_LEN)
              IN  /\ src.document = GetOr(doc.metadata, "doc_id", "unknown")
                  /\ src.page = GetOr(doc.metadata, "page", Some(0))
                  /\ Len(preview) = n + 3
                  /\ \A i \in 1..n : preview[i] = text[i]
                  /\ \A i \in n + 1..n + 3 : preview[i] = "."
                  /\ Len(text) <= PREVIEW_LEN => IsPrefix(text, preview)
                  /\ preview = text <=>
                        /\ Len(text) = PREVIEW_LEN + 3
                        /\ \A i \in PREVIEW_LEN + 1..PREVIEW_LEN + 3 : text[i] = "."

\* a successful ask that retrieved several chunks, one longer and one no
\* longer than the preview
C10_Witness ==
    /\ Asked
    /\ last.outcome = "ok"
    /\ Len(last.retrieved) > 1
    /\ \E k \in 1..Len(last.retrieved) :
          Len(last.retrieved[k].page_content) > PREVIEW_LEN
    /\ \E k \in 1..Len(last.retrieved) :
          Len(last.retrieved[k].page_content) <= PREVIEW_LEN

-----------------------------------------------------------------------------
(* Properties of store_in_chromadb, checked under Spec *)

Stored == last.op = "store"

BatchIds == {ChunkId(last.doc_id, k - 1) : k \in 1..Len(last.chunks)}

\* C4: storing a document's chunks when the collection already holds
\* records with the same ids succeeds, replaces those records with the new
\* content and leaves the collection count unchanged.
C4_RestoreOverwrites ==
    Stored /\ last.add_called /\ last.chunks # << >> /\ last.existing = BatchIds =>
        /\ last.result.status = "success"
        /\ \A k \in 1..Len(last.chunks) :
              store[INDEX_COLLECTION][ChunkId(last.doc_id, k - 1)].document
                  = last.chunks[k].chunk_text
        /\ Cardinality(DOMAIN store[INDEX_COLLECTION]) = last.size_before

\* what the code does: no call changes or removes a stored record
C4_AddNeverOverwrites ==
    [][\A id \in DOMAIN store[INDEX_COLLECTION] :
          /\ id \in DOMAIN store'[INDEX_COLLECTION]
          /\ store'[INDEX_COLLECTION][id] = store[INDEX_COLLECTION][id]]_vars

\* a document stored again with a different text for chunk 0
C4_Witness ==
    /\ Stored /\ last.add_called
    /\ last.chunks # << >> /\ last.existing = BatchIds
    /\ store[INDEX_COLLECTION][ChunkId(last.doc_id, 0)].document
           # last.chunks[1].chunk_text

\* C6: every record written by a successful indexing run is a member of
\* the collection the question answerer queries, so that after indexing a
\* non-empty document a retrieval can return its chunks.
C6_IndexedRecordsAreQueried ==
    /\ \A id \in DOMAIN store[INDEX_COLLECTION] :
          /\ id \in DOMAIN store[QA_COLLECTION]
          /\ store[QA_COLLECTION][id] = store[INDEX_COLLECTION][id]
    /\ Asked /\ last.outcome = "ok" /\ DOMAIN store[INDEX_COLLECTION] # {}
          => last.retrieved # << >>

\* what the code does: nothing the indexer stores is ever retrieved
C6_NothingIndexedIsRetrieved ==
    Asked => last.retrieved = << >>

\* a successful ask after a document was indexed
C6_Witness ==
    /\ Asked /\ last.outcome = "ok"
    /\ DOMAIN store[INDEX_COLLECTION] # {}

\* a metadata dictionary with its four keys and no None value
NoNull(m) ==
    /\ DOMAIN m = {"doc_id", "page", "heading", "chunk_index"}
    /\ m.page # None
    /\ m.heading # None

\* C9: every metadata record passed to the vector store has no null value:
\* a missing or null page_number is stored as page 0, a missing or null
\* heading as the empty string, and doc_id and chunk_index are the
\* document's id and the chunk's position.
C9_NoNullMetadata ==
    /\ Stored =>
          /\ last.add_called => Len(last.passed) = Len(last.chunks)
          /\ \A k \in 1..Len(last.passed) :
                LET m == last.passed[k]
                    c == last.chunks[k]
                IN  /\ NoNull(m)
                    /\ m.doc_id = last.doc_id
                    /\ m.chunk_index = k - 1
                    /\ ("page_number" \notin DOMAIN c \/ c.page_number = None)
                          => m.page = Some(0)
                    /\ ("heading" \notin DOMAIN c \/ c.heading = None)
                          => m.heading = Some(<< >>)
                    /\ ("page_number" \in DOMAIN c /\ c.page_number # None)
                          => m.page = c.page_number
                    /\ ("heading" \in DOMAIN c /\ c.heading # None)
                          => m.heading = c.heading
    /\ \A id \in DOMAIN store[INDEX_COLLECTION] :
          NoNull(store[INDEX_COLLECTION][id].metadata)

\* a stored batch with a chunk whose page_number is null and heading is
\* missing, and a chunk whose page_number is missing and heading is null
C9_Witness ==
    /\ Stored /\ last.add_called
    /\ last.result.status = "success"
    /\ \E k \in 1..Len(last.chunks) :
          LET c == last.chunks[k]
          IN  /\ "page_number" \in DOMAIN c /\ c.page_number = None
              /\ "heading" \notin DOMAIN c
    /\ \E k \in 1..Len(last.chunks) :
          LET c == last.chunks[k]
          IN  /\ "page_number" \notin DOMAIN c
              /\ "heading" \in DOMAIN c /\ c.heading = None

-----------------------------------------------------------------------------
(* Properties of the indexing pipeline, checked under SpecPipeline *)

\* the record the index collection holds for chunk k of the last store call
WrittenAs(k) ==
    LET coll == store[INDEX_COLLECTION]
        id   == ChunkId(last.doc_id, k - 1)
    IN  /\ id \in DOMAIN coll
        /\ coll[id].document = last.chunks[k].chunk_text
        /\ coll[id].metadata.chunk_index = k - 1

\* the pdf is one page of 2500 characters and process_pdf has returned
LongPageProcessed ==
    /\ ppc = "returned"
    /\ Len(pdf.pages) = 1 /\ HasText(1) /\ Len(TextOf(1)) = 2500

\* the chunks are those of a long page: page_number 1, the three of them
ThreeChunksOfPageOne(cs) ==
    /\ Len(cs) = 3
    /\ \A k \in 1..Len(cs) : cs[k].page_number = Some(1)

\* C11: storing a document with n chunks writes exactly n records with the
\* ids {doc_id}_chunk_0 .. {doc_id}_chunk_{n-1}, pairwise distinct, each
\* with chunk_index equal to the position of its chunk in the document,
\* whatever its page; one page of 2500 characters with CHUNK_SIZE 1000
\* gives exactly 3 chunks with page_number 1 and chunk_index 0, 1, 2.
C11_StoreWritesEveryChunk ==
    /\ Stored =>
          LET n == Len(last.chunks)
          IN  /\ \A k \in 1..n : WrittenAs(k)
              /\ Cardinality(BatchIds) = n
              /\ Cardinality(DOMAIN store[INDEX_COLLECTION]) = last.size_before + n
    /\ LongPageProcessed =>
          /\ ThreeChunksOfPageOne(chunks)
          /\ Stored => [k \in 1..3 |-> last.passed[k].chunk_index] = <<0, 1, 2>>

\* what the code does: the first indexing run of a file writes every chunk
\* under its position, a later run writes no chunk whose id is taken, and
\* the long page always gives its three chunks
C11_OnlyFreshIdsAreWritten ==
    /\ Stored /\ last.existing = {} =>
          /\ last.result.status = "success"
          /\ last.result.stored_count = Len(last.chunks)
          /\ \A k \in 1..Len(last.chunks) : WrittenAs(k)
          /\ Cardinality(DOMAIN store[INDEX_COLLECTION])
                 = last.size_before + Len(last.chunks)
    /\ Stored =>
          /\ Cardinality(BatchIds) = Len(last.chunks)
          /\ \A k \in 1..Len(last.chunks) :
                ChunkId(last.doc_id, k - 1) \in last.existing => ~WrittenAs(k)
          /\ \A k \in 1..Len(last.passed) : last.passed[k].chunk_index = k - 1
    /\ LongPageProcessed =>
          /\ ThreeChunksOfPageOne(chunks)
          /\ [k \in 1..3 |-> Len(chunks[k].chunk_text)] = <<1000, 1000, 500>>

\* the long page indexed again: its three chunks are passed under
\* chunk_index 0, 1, 2 and the records of the earlier run stay
C11_Witness ==
    /\ LongPageProcessed /\ Stored /\ last.add_called
    /\ last.existing # {}
    /\ [k \in 1..3 |-> last.passed[k].chunk_index] = <<0, 1, 2>>
    /\ ~WrittenAs(1)

\* the first run over a two-page file: chunk_index runs on across the pages
C11_FreshWitness ==
    /\ Stored /\ last.existing = {} /\ Len(last.chunks) = 4
    /\ last.chunks[4].page_number = Some(2)
    /\ WrittenAs(4)

-----------------------------------------------------------------------------
(* Properties of the PUT /ask endpoint, checked under SpecHttp *)

\* ask_question returned a dictionary with an error
AskFailed == Asked /\ "error" \in DOMAIN last.result

\* C12: when SimpleRAGQA.ask_question returns a result containing an error,
\* the handler answers with HTTP status 400, the failure status the endpoint
\* declares, carrying that error message, and never with a success
\* QuestionResponse.
C12_ErrorAnsweredWith400 ==
    AskFailed =>
        /\ response.status_code = 400
        /\ response.detail = <<last.result.error>>
        /\ response.body = None

\* what the code does: the failure is answered with status 500 and never
\* with a success response; a result without an error is answered with 200
C12_ErrorAnsweredWith500 ==
    /\ AskFailed =>
          /\ response.status_code = 500
          /\ Head(response.detail) = "Internal server error: "
          /\ response.body = None
    /\ Asked /\ ~AskFailed =>
          /\ response.status_code = 200
          /\ response.body = Some(QuestionResponse(last.result))

\* a failed question answered with 500 whose detail quotes the 400
C12_Witness ==
    /\ AskFailed
    /\ response.status_code = 500
    /\ response.detail
           = <<"Internal server error: ", "400", ": ", last.result.error>>

=============================================================================
